---- MODULE Spec2Model ----
(***************************************************************************)
(* Model of Modeling/modeling_functions.py: removeOutliers, customCV and   *)
(* customGridSearchCV.                                                     *)
(*                                                                         *)
(* A pandas table is a sequence of rows [idx, src, v]: idx is the row's    *)
(* index label, v the tuple of its column values, and src a history field  *)
(* holding the position (1-based) of the row of the input X the row was    *)
(* derived from.  A label series is a sequence of rows [idx, src, cls].    *)
(* Feature values are exact integers: a scaled value is kept as its        *)
(* numerator over the scaler's common denominator, a metric as a multiple  *)
(* of 1/One.                                                               *)
(***************************************************************************)
EXTENDS Integers, Sequences, FiniteSets, TLC

VARIABLES
    pc,              \* position in the running function
    param_grid,      \* customGridSearchCV argument: name -> candidate list
    scoring,         \* customGridSearchCV argument
    X, y,            \* features table and label series
    outlier_removal, \* boolean option
    pca,             \* reducer object: [given, fitted_on, n, sum]
    scaler,          \* scaler object: [fitted_on, data_min, data_max]
    current_params,  \* customGridSearchCV: the shared, mutated dict
    scores,          \* customGridSearchCV: dict key -> score vector (insertion order)
    level, it,       \* the nested for loops: active depth and each loop's next position
    clf,             \* customCV_params['clf']: the instantiated model
    cv_scores,       \* customCV: the per-fold list `scores`
    fold,            \* customCV: number of folds done
    train_index, test_index,
    X_train, X_test, y_train, X_train_s,
    X_test_s, X_train_s_r, y_train_r, X_train_s_r_o, y_train_final,
    X_train_final, X_test_final, y_test, y_pred,
    nInst, nCV, nFit,\* history: calls of clf(**...), customCV(...), clf.fit(...)
    log,             \* history: one record per customCV call made by the grid search
    printed,         \* keys printed by the scoring branch, in print order
    ret,             \* returned value
    raised           \* exception that ended the call, or "None"

vars == <<pc, param_grid, scoring, X, y, outlier_removal, pca, scaler,
          current_params, scores, level, it, clf, cv_scores, fold,
          train_index, test_index, X_train, X_test, y_train, X_train_s,
          X_test_s, X_train_s_r, y_train_r,
          X_train_s_r_o, y_train_final, X_train_final, X_test_final,
          y_test, y_pred, nInst, nCV, nFit, log, printed, ret, raised>>

----------------------------------------------------------------------------
(* Bounds of the model *)

\* rows of the tables handed directly to removeOutliers
NOut == 20
\* rows of the data set handed to customCV in the cross-validation runs
NRows == 20
\* rows of the data set in the grid-enumeration runs
NRowsGrid == 10
\* hyperparameter names in a grid (the code nests five loops)
MaxNames == 6
\* candidate values per hyperparameter name
MaxCand == 2
\* magnitude of an extreme feature value
Big == 100

(* Program constants *)

\* outliers lie more than 4 standard deviations from the mean
NSigma == 4
\* StratifiedKFold() splits into 5 folds
n_splits == 5
\* depth of the nested for loops
MaxDepth == 5

\* the metric value 1.0; a metric m is kept as m * One
One == 2 * 2 * 3 * 5 * 5 * 7

----------------------------------------------------------------------------
(* Generic helpers *)

Range(s) == {s[i] : i \in 1..Len(s)}

\* the list with the elements f[1], ..., f[n], built once
List(f) == f \o <<>>

RECURSIVE SumSeq(_)
SumSeq(s) == IF s = <<>> THEN 0 ELSE s[1] + SumSeq(Tail(s))

RECURSIVE FlattenSeq(_)
FlattenSeq(ss) == IF ss = <<>> THEN <<>> ELSE ss[1] \o FlattenSeq(Tail(ss))

NCols(t) == IF t = <<>> THEN 0 ELSE Len(t[1].v)

Column(t, c) == List([i \in 1..Len(t) |-> t[i].v[c]])

IndexOf(t) == List([i \in 1..Len(t) |-> t[i].idx])

SrcOf(t) == List([i \in 1..Len(t) |-> t[i].src])

\* DataFrame.drop(labels, axis=0): every row whose index label is listed goes
Drop(t, labels) == LET Keep(r) == r.idx \notin labels IN SelectSeq(t, Keep)

----------------------------------------------------------------------------
(* removeOutliers *)

\* the comparisons of line 31 on exact integers.  With n = len, S = sum,
\* Q = sum of squares and d = n*x - S:  mean = S/n,  std^2 = (n*Q - S*S) /
\* (n*(n-1))  (pandas' sample standard deviation), so
\*   x > mean + 4*std  <=>  d > 0 /\ d*d*(n-1) > 16*n*(n*Q - S*S)
\*   x < mean - 4*std  <=>  d < 0 /\ d*d*(n-1) > 16*n*(n*Q - S*S)
\* With n < 2 the standard deviation is NaN and both comparisons are false.
ColSum(t, c) == SumSeq(Column(t, c))
ColSumSq(t, c) == SumSeq(List([i \in 1..Len(t) |-> t[i].v[c] * t[i].v[c]]))

FarFromMean(n, S, Q, x) ==
    n >= 2 /\ (n * x - S) * (n * x - S) * (n - 1) > NSigma * NSigma * n * (n * Q - S * S)

BelowBand(n, S, Q, x) == n * x - S < 0 /\ FarFromMean(n, S, Q, x)
AboveBand(n, S, Q, x) == n * x - S > 0 /\ FarFromMean(n, S, Q, x)

\* line 31: the index labels of the rows outside the band in column c
ColOutliers(t, c) ==
    LET n == Len(t)
        S == ColSum(t, c)
        Q == ColSumSq(t, c)
        Out(r) == BelowBand(n, S, Q, r.v[c]) \/ AboveBand(n, S, Q, r.v[c])
    IN  IndexOf(SelectSeq(t, Out))

\* lines 23-36: col_indices grows by one list per column and the whole of
\* col_indices is appended to indices again after every column
col_indices(t, c) == List([k \in 1..c |-> ColOutliers(t, k)])


indicesOfLastColumn(t, c) == IF c = 0 THEN <<>> ELSE ColOutliers(t, c)
RECURSIVE indices(_, _)
indices(t, c) ==
    IF c = 0 THEN <<>>
    ELSE indices(t, c - 1) \o FlattenSeq(col_indices(t, c))

\* lines 39-43: the unique labels are dropped from both tables
DropFromYSkipped(Xt, yt) == <<Drop(Xt, Range(indices(Xt, NCols(Xt)))), yt>>
removeOutliers(Xt, yt) ==
    LET labels == Range(indices(Xt, NCols(Xt)))
    IN  <<Drop(Xt, labels), Drop(yt, labels)>>

----------------------------------------------------------------------------
(* The collaborators customCV is handed: splitter, scaler, resampler,      *)
(* reducer, model and metric provider                                      *)

Min(S) == CHOOSE m \in S : \A k \in S : m <= k
Max(S) == CHOOSE m \in S : \A k \in S : m >= k

\* DataFrame.iloc[positions] / Series.iloc[positions], positions 1-based
ILoc(t, positions) == List([j \in 1..Len(positions) |-> t[positions[j]]])

\* pd.DataFrame(array, columns=...): a fresh RangeIndex 0..n-1
ResetIndex(t) == List([j \in 1..Len(t) |-> [t[j] EXCEPT !.idx = j - 1]])

\* StratifiedKFold(n_splits=5, shuffle=False).  Classes are numbered in order
\* of first appearance; sorting the numbered labels and dealing them round
\* robin gives each fold its share of each class (allocation); the samples of
\* a class, in input order, then fill fold 0's share, fold 1's share, ...
test_folds(ys) ==
    LET n == Len(ys)
        rank == List([i \in 1..n |-> IF ys[i].cls = ys[1].cls THEN 0 ELSE 1])
        count0 == Cardinality({i \in 1..n : rank[i] = 0})
        y_order == [j \in 0..(n - 1) |-> IF j < count0 THEN 0 ELSE 1]
        allocation ==
            [f \in 0..(n_splits - 1) |-> [k \in 0..1 |->
                Cardinality({j \in 0..(n - 1) : j % n_splits = f /\ y_order[j] = k})]]
        upto ==
            [f \in 0..(n_splits - 1) |-> [k \in 0..1 |->
                SumSeq(List([g \in 1..(f + 1) |-> allocation[g - 1][k]]))]]
        seen == List([i \in 1..n |-> Cardinality({j \in 1..(i - 1) : rank[j] = rank[i]})])
    IN  List([i \in 1..n |-> Min({f \in 0..(n_splits - 1) : seen[i] < upto[f][rank[i]]})])

RECURSIVE Ascending(_)
Ascending(S) ==
    IF S = {} THEN <<>> ELSE <<Min(S)>> \o Ascending(S \ {Min(S)})

\* the f-th pair (0-based) skf.split(X, y) yields, as ascending positions
SplitTest(ys, f) ==
    LET tf == test_folds(ys) IN Ascending({i \in 1..Len(ys) : tf[i] = f})
SplitTrain(ys, f) ==
    LET tf == test_folds(ys) IN Ascending({i \in 1..Len(ys) : tf[i] # f})

\* MinMaxScaler.  fit replaces the state by the column minima and maxima of
\* the table it is given; transform maps x to (x - data_min) / (data_max -
\* data_min), kept here as the numerator x - data_min.
ScalerPartialFit(sc, t) ==
    [fitted_on |-> sc.fitted_on \cup Range(SrcOf(t)),
     data_min  |-> [c \in 1..NCols(t) |->
                      Min(Range(Column(t, c)) \cup
                          (IF sc.data_min = <<>> THEN {} ELSE {sc.data_min[c]}))],
     data_max  |-> [c \in 1..NCols(t) |->
                      Max(Range(Column(t, c)) \cup
                          (IF sc.data_max = <<>> THEN {} ELSE {sc.data_max[c]}))]]
ScalerFit(sc, t) ==
    [fitted_on |-> Range(SrcOf(t)),
     data_min  |-> List([c \in 1..NCols(t) |-> Min(Range(Column(t, c)))]),
     data_max  |-> List([c \in 1..NCols(t) |-> Max(Range(Column(t, c)))])]

ScalerTransform(sc, t) ==
    List([j \in 1..Len(t) |->
        [t[j] EXCEPT !.v = List([c \in 1..Len(t[j].v) |-> t[j].v[c] - sc.data_min[c]])]])

\* the resampler, a random over-sampler with its choices fixed: rows of the
\* smaller class are repeated in turn until the classes are level.  It pairs
\* the rows of its two arguments by position and returns fresh indexes.
MinorityPositions(ys) ==
    LET ones  == {i \in 1..Len(ys) : ys[i].cls = 1}
        zeros == {i \in 1..Len(ys) : ys[i].cls # 1}
    IN  IF Cardinality(ones) < Cardinality(zeros) THEN Ascending(ones)
        ELSE IF Cardinality(zeros) < Cardinality(ones) THEN Ascending(zeros)
        ELSE <<>>

Shortfall(ys) ==
    LET ones == Cardinality({i \in 1..Len(ys) : ys[i].cls = 1})
    IN  IF MinorityPositions(ys) = <<>> THEN 0
        ELSE IF 2 * ones < Len(ys) THEN Len(ys) - 2 * ones ELSE 2 * ones - Len(ys)

Repeats(ys) ==
    LET m == MinorityPositions(ys)
    IN  IF m = <<>> THEN <<>>
        ELSE List([j \in 1..Shortfall(ys) |-> m[((j - 1) % Len(m)) + 1]])

FitResample(Xt, yt) ==
    <<ResetIndex(Xt \o ILoc(Xt, Repeats(yt))), ResetIndex(yt \o ILoc(yt, Repeats(yt)))>>

\* the reducer on one feature: PCA's projection x - mean, kept as n*x - sum
\* with n and sum those of the table it was fitted on
PcaFit(p, t) ==
    [given |-> p.given, fitted_on |-> Range(SrcOf(t)), n |-> Len(t),
     sum |-> List([c \in 1..NCols(t) |-> ColSum(t, c)])]

PcaTransform(p, t) ==
    ResetIndex(List([j \in 1..Len(t) |->
        [t[j] EXCEPT !.v = <<p.n * t[j].v[1] - p.sum[1]>>]]))

\* the model class: k nearest neighbours, k the sum of its keyword values
\* (never more than the rows it was fitted on); ties in distance go to the
\* earlier row, ties in the vote to class 0
Dist(a, b) == SumSeq(List([c \in 1..Len(a) |-> (a[c] - b[c]) * (a[c] - b[c])]))

Neighbours(k, Xt, x) ==
    LET d == List([i \in 1..Len(Xt) |-> Dist(Xt[i].v, x)])
    IN  {j \in 1..Len(Xt) :
            Cardinality({i \in 1..Len(Xt) : d[i] < d[j] \/ (d[i] = d[j] /\ i < j)}) < k}

n_neighbors(c) == SumSeq(List([i \in 1..Len(c.params) |-> c.params[i].value.n]))

Predict(c, Xt, yt, x) ==
    LET near == Neighbours(n_neighbors(c), Xt, x)
    IN  IF 2 * Cardinality({j \in near : yt[j].cls = 1}) > Cardinality(near)
        THEN 1 ELSE 0

\* classification_report(y_test, y_pred, output_dict=True)['1']: a ratio whose
\* denominator is zero is reported as 0
Ratio(num, den) == IF den = 0 THEN 0 ELSE (One * num) \div den

Count(yt, yp, a, b) ==
    Cardinality({j \in 1..Len(yt) : yt[j].cls = a /\ yp[j] = b})

classification_report(yt, yp) ==
    LET tp == Count(yt, yp, 1, 1)
        fn == Count(yt, yp, 1, 0)
        fp == Count(yt, yp, 0, 1)
    IN  <<Ratio(tp, tp + fn), Ratio(tp, tp + fp), Ratio(2 * tp, 2 * tp + fp + fn)>>

\* np.mean of one component of the per-fold scores
Mean(ss, m) == SumSeq(List([i \in 1..Len(ss) |-> ss[i][m]])) \div Len(ss)

----------------------------------------------------------------------------
(* Values of the locals before a function has assigned them *)

NoScaler == [fitted_on |-> {}, data_min |-> <<>>, data_max |-> <<>>]
NoPca(given) == [given |-> given, fitted_on |-> {}, n |-> 0, sum |-> <<>>]
NoClf == [params |-> <<>>]

GridLocalsInit ==
    /\ current_params = <<>>
    /\ scores = <<>>
    /\ level = 1
    /\ it = [l \in 1..MaxDepth |-> 1]
    /\ clf = NoClf
    /\ nInst = 0 /\ nCV = 0 /\ nFit = 0
    /\ log = <<>>
    /\ printed = <<>>
    /\ ret = "None"
    /\ raised = "None"

CVLocalsInit ==
    /\ cv_scores = <<>>
    /\ fold = 0
    /\ train_index = <<>> /\ test_index = <<>>
    /\ X_train = <<>> /\ X_test = <<>> /\ y_train = <<>> /\ X_train_s = <<>>
    /\ X_test_s = <<>>
    /\ X_train_final = <<>> /\ X_test_final = <<>>
    /\ y_test = <<>> /\ y_pred = <<>>

----------------------------------------------------------------------------
(* customGridSearchCV: dicts, str() and sorted()                           *)

\* a dict is the sequence of its [key, value] items in insertion order
Keys(d) == List([i \in 1..Len(d) |-> d[i].key])
Values(d) == List([i \in 1..Len(d) |-> d[i].value])
HasKey(d, k) == \E i \in 1..Len(d) : d[i].key = k
Get(d, k) == d[CHOOSE i \in 1..Len(d) : d[i].key = k].value

\* d[k] = v
DictSetAppendOnly(d, k, v) ==
    IF HasKey(d, k) THEN d ELSE Append(d, [key |-> k, value |-> v])
DictSet(d, k, v) ==
    IF HasKey(d, k)
    THEN List([i \in 1..Len(d) |-> IF d[i].key = k THEN [key |-> k, value |-> v] ELSE d[i]])
    ELSE Append(d, [key |-> k, value |-> v])

\* a hyperparameter value is an integer n, plain or held in a NumPy scalar;
\* both print as the digits of n
RECURSIVE Digits(_)
Digits(n) == IF n < 10 THEN <<48 + n>> ELSE Digits(n \div 10) \o <<48 + (n % 10)>>

Repr(v) == Digits(v.n)

\* str(dict) as character codes: {'a': 1, 'b': 10}; a name is one letter
RECURSIVE ItemsStr(_)
ItemsStr(d) ==
    IF d = <<>> THEN <<>>
    ELSE <<39, d[1].key, 39, 58, 32>> \o Repr(d[1].value)
         \o (IF Len(d) = 1 THEN <<>> ELSE <<44, 32>>) \o ItemsStr(Tail(d))

Str(d) == <<123>> \o ItemsStr(d) \o <<125>>

\* the order of Python strings: by code point, a proper prefix first
RECURSIVE StrLess(_, _)
StrLess(a, b) ==
    IF a = <<>> THEN b # <<>>
    ELSE IF b = <<>> THEN FALSE
    ELSE IF a[1] # b[1] THEN a[1] < b[1]
    ELSE StrLess(Tail(a), Tail(b))

RECURSIVE Insert(_, _)
Insert(k, ks) ==
    IF ks = <<>> THEN <<k>>
    ELSE IF StrLess(ks[1], k) THEN <<ks[1]>> \o Insert(k, Tail(ks))
    ELSE <<k>> \o ks

RECURSIVE sorted(_)
sorted(ks) == IF ks = <<>> THEN <<>> ELSE Insert(ks[1], sorted(Tail(ks)))

\* line 187 and line 190
param_keys == Ascending(DOMAIN param_grid)
len_ == Len(param_keys)

----------------------------------------------------------------------------
(* customCV, one fold at a time                                            *)

\* lines 99-100: the test rows through the fitted scaler
ScaledTestResampled(sc, Xtest) ==
    FitResample(ResetIndex(ScalerTransform(sc, Xtest)), y_test')[1]
ScaledTest(sc, Xtest) == ResetIndex(ScalerTransform(sc, Xtest))

\* lines 110-113
OutlierStep(flag, Xt, yt) == IF flag THEN removeOutliers(Xt, yt) ELSE <<Xt, yt>>

\* lines 117-122: the final train and test features
ReduceTrain(p, Xtr) == IF p.given THEN PcaTransform(p, Xtr) ELSE Xtr
ReduceTest(p, Xts) == IF p.given THEN PcaTransform(p, Xts) ELSE Xts

\* lines 94-133: the body of the loop over skf.split(X, y)
Fold ==
    /\ pc = "customCV"
    /\ fold < n_splits
    /\ train_index' = SplitTrain(y, fold)
    /\ test_index' = SplitTest(y, fold)
    /\ X_train' = ILoc(X, train_index')
    /\ X_test' = ILoc(X, test_index')
    /\ y_train' = ILoc(y, train_index')
    /\ y_test' = ILoc(y, test_index')
    /\ scaler' = ScalerFit(scaler, X_train')
    /\ X_train_s' = ResetIndex(ScalerTransform(scaler', X_train'))
    /\ X_test_s' = ScaledTest(scaler', X_test')
    /\ X_train_s_r' = FitResample(X_train_s', y_train')[1]
    /\ y_train_r' = FitResample(X_train_s', y_train')[2]
    /\ X_train_s_r_o' = OutlierStep(outlier_removal, X_train_s_r', y_train_r')[1]
    /\ y_train_final' = OutlierStep(outlier_removal, X_train_s_r', y_train_r')[2]
    /\ pca' = IF pca.given THEN PcaFit(pca, X_train_s_r_o') ELSE pca
    /\ X_train_final' = ReduceTrain(pca', X_train_s_r_o')
    /\ X_test_final' = ReduceTest(pca', X_test_s')
    /\ y_pred' = List([j \in 1..Len(X_test_final') |->
                    Predict(clf, X_train_final', y_train_final', X_test_final'[j].v)])
    /\ cv_scores' = Append(cv_scores, classification_report(y_test', y_pred'))
    /\ nFit' = nFit + 1
    /\ fold' = fold + 1
    /\ UNCHANGED <<pc, param_grid, scoring, X, y, outlier_removal,
                   current_params, scores, level, it, clf,
                   nInst, nCV, log, printed, ret, raised>>

\* lines 144-155: the mean scores
customCV_result ==
    <<Mean(cv_scores, 1), Mean(cv_scores, 2), Mean(cv_scores, 3)>>

----------------------------------------------------------------------------
(* customGridSearchCV: the enumeration                                     *)

\* the body of the for loop at the active depth: lines 209-213, 215-219,
\* 221-225, 227-231 and 233-237.  At the depth that equals len_ the model is
\* instantiated and customCV entered; above it the next loop is started; at
\* the fifth loop of a longer grid nothing is done.
EvaluatesAtOrBeyond(l) == len_ >= l
EvaluatesAtLast(l) == len_ = l \/ (l = MaxDepth /\ len_ > MaxDepth)
EvaluatesAt(l) == len_ = l

LoopIter ==
    /\ pc = "loop"
    /\ it[level] <= Len(param_grid[param_keys[level]])
    /\ current_params' =
          DictSet(current_params, param_keys[level], param_grid[param_keys[level]][it[level]])
    /\ IF EvaluatesAt(level)
       THEN /\ clf' = [params |-> current_params']
            /\ nInst' = nInst + 1
            /\ nCV' = nCV + 1
            /\ cv_scores' = <<>>
            /\ fold' = 0
            /\ pc' = "customCV"
            /\ it' = [it EXCEPT ![level] = @ + 1]
            /\ UNCHANGED level
       ELSE /\ IF level < MaxDepth
               THEN /\ level' = level + 1
                    /\ it' = [it EXCEPT ![level] = @ + 1, ![level + 1] = 1]
               ELSE /\ it' = [it EXCEPT ![level] = @ + 1]
                    /\ UNCHANGED level
            /\ UNCHANGED <<clf, nInst, nCV, cv_scores, fold, pc>>
    /\ UNCHANGED <<param_grid, scoring, X, y, outlier_removal, pca, scaler, scores,
                   train_index, test_index, X_train, X_test, y_train, X_train_s,
                   X_test_s, X_train_s_r, y_train_r,
                   X_train_s_r_o, y_train_final, X_train_final, X_test_final,
                   y_test, y_pred, nFit, log, printed, ret, raised>>

\* a for loop runs out of values: the enclosing loop goes on, and after the
\* outermost loop the scoring branch is reached
LoopExit ==
    /\ pc = "loop"
    /\ it[level] > Len(param_grid[param_keys[level]])
    /\ IF level = 1
       THEN pc' = "scoring" /\ UNCHANGED level
       ELSE level' = level - 1 /\ UNCHANGED pc
    /\ UNCHANGED <<param_grid, scoring, X, y, outlier_removal, pca, scaler,
                   current_params, scores, it, clf, cv_scores, fold,
                   train_index, test_index, X_train, X_test, y_train, X_train_s,
                   X_test_s, X_train_s_r, y_train_r,
                   X_train_s_r_o, y_train_final, X_train_final, X_test_final,
                   y_test, y_pred, nInst, nCV, nFit, log, printed, ret, raised>>

\* customCV returns and scores[str(current_params)] is assigned
CVReturn ==
    /\ pc = "customCV"
    /\ fold = n_splits
    /\ scores' = DictSet(scores, Str(current_params), customCV_result)
    /\ log' = Append(log, [params |-> clf.params,
                           key    |-> Str(current_params),
                           score  |-> customCV_result])
    /\ pc' = "loop"
    /\ UNCHANGED <<param_grid, scoring, X, y, outlier_removal, pca, scaler,
                   current_params, level, it, clf, cv_scores, fold,
                   train_index, test_index, X_train, X_test, y_train, X_train_s,
                   X_test_s, X_train_s_r, y_train_r,
                   X_train_s_r_o, y_train_final, X_train_final, X_test_final,
                   y_test, y_pred, nInst, nCV, nFit, printed, ret, raised>>

----------------------------------------------------------------------------
(* customGridSearchCV: the scoring branches, lines 241-267                 *)

NoneValue == [kind |-> "None"]
Mapping(d) == [kind |-> "scores", scores |-> d]

\* line 247: recall > 0.5 and precision > 0.2
PassesEither(vec) == 2 * vec[1] > One \/ 5 * vec[2] > One
Passes(vec) == 2 * vec[1] > One /\ 5 * vec[2] > One

\* lines 246-248: the keys printed by the 'custom' branch
CustomPrinted(d) ==
    LET Ok(k) == Passes(Get(d, k)) IN SelectSeq(sorted(Keys(d)), Ok)

\* lines 242-244: the loop body returns in its first pass
AllPrinted(d) == IF d = <<>> THEN <<>> ELSE <<sorted(Keys(d))[1]>>

Scoring ==
    /\ pc = "scoring"
    /\ pc' = "done"
    /\ CASE scoring = "all" ->
              \* with no entry the loop body never runs and control falls
              \* through every later test to the end of the function
              /\ printed' = AllPrinted(scores)
              /\ ret' = IF scores = <<>> THEN NoneValue ELSE Mapping(scores)
              /\ UNCHANGED raised
         [] scoring = "custom" ->
              /\ printed' = CustomPrinted(scores)
              /\ ret' = Mapping(scores)
              /\ UNCHANGED raised
         [] scoring \in {"recall", "f1"} ->
              \* max() of an empty list raises ValueError; otherwise the
              \* print of the first best key reads the undefined scaler_str
              /\ raised' = IF scores = <<>> THEN "ValueError" ELSE "NameError"
              /\ UNCHANGED <<printed, ret>>
         [] scoring = "precision" ->
              \* line 257 compares the unassigned local max_score
              /\ raised' = "UnboundLocalError"
              /\ UNCHANGED <<printed, ret>>
         [] OTHER ->
              /\ UNCHANGED <<printed, ret, raised>>
    /\ UNCHANGED <<param_grid, scoring, X, y, outlier_removal, pca, scaler,
                   current_params, scores, level, it, clf, cv_scores, fold,
                   train_index, test_index, X_train, X_test, y_train, X_train_s,
                   X_test_s, X_train_s_r, y_train_r,
                   X_train_s_r_o, y_train_final, X_train_final, X_test_final,
                   y_test, y_pred, nInst, nCV, nFit, log>>

Next == LoopIter \/ LoopExit \/ Fold \/ CVReturn \/ Scoring

----------------------------------------------------------------------------
(* The calls of customGridSearchCV that are explored                       *)

Plain(n) == [n |-> n, np |-> FALSE]
NumPy(n) == [n |-> n, np |-> TRUE]

\* candidate lists are the leading parts of two lists; in the second the
\* first two values print alike
Masters ==
    {<<Plain(3), Plain(1), Plain(10)>>,
     <<Plain(1), NumPy(1), Plain(2)>>}

Leading(s, k) == SubSeq(s, 1, IF k < Len(s) THEN k ELSE Len(s))

ListsA == {Leading(m, k) : m \in Masters, k \in 0..MaxCand}
ListsB == {Leading(<<Plain(2), Plain(1), Plain(10)>>, k) : k \in 0..MaxCand}

\* names are the letters a, b, c, ... (character codes 97, 98, ...)
Names(n) == 97..(96 + n)

\* the grids of lo to hi names: any list of ListsA for each of the first two
\* names, one list of ListsB for all the later names
Grids(lo, hi) ==
    UNION {{[c \in Names(n) |-> IF c = 97 THEN la ELSE IF c = 98 THEN lb ELSE lr] :
               la \in ListsA, lb \in ListsA, lr \in ListsB} : n \in lo..hi}

\* a data set of n rows and one feature: every m-th row is of class 1, row p
\* (if any) holds the value big
Feature(i, m) == ((i * 3) % 7) + (IF i % m = 0 THEN 3 ELSE 0)

DataX(n, m, p, big) ==
    [i \in 1..n |-> [idx |-> i - 1, src |-> i,
                     v |-> <<IF i = p THEN big ELSE Feature(i, m)>>]]

DataY(n, m) ==
    [i \in 1..n |-> [idx |-> i - 1, src |-> i, cls |-> IF i % m = 0 THEN 1 ELSE 0]]

FoldLocalsInit ==
    /\ X_train_s_r = <<>> /\ y_train_r = <<>>
    /\ X_train_s_r_o = <<>> /\ y_train_final = <<>>

\* grids of one to MaxNames names on one small data set
Init ==
    /\ pc = "loop"
    /\ param_grid \in Grids(1, MaxNames)
    /\ scoring = "all"
    /\ X = DataX(NRowsGrid, 2, 0, 0)
    /\ y = DataY(NRowsGrid, 2)
    /\ outlier_removal = FALSE
    /\ pca = NoPca(FALSE)
    /\ scaler = NoScaler
    /\ GridLocalsInit /\ CVLocalsInit /\ FoldLocalsInit

Spec == Init /\ [][Next]_vars

\* every scoring mode, on grids of one or two names and on one grid with more
\* names than the loops are deep
ScoringModes == {"all", "custom", "recall", "precision", "f1", "accuracy"}

InitScore ==
    /\ pc = "loop"
    /\ param_grid \in Grids(1, 2) \cup {[c \in Names(MaxNames) |-> <<Plain(1)>>]}
    /\ scoring \in ScoringModes
    /\ \E p \in {0, 2, 4} : X = DataX(NRowsGrid, 2, p, -Big)
    /\ y = DataY(NRowsGrid, 2)
    /\ outlier_removal = FALSE
    /\ pca = NoPca(FALSE)
    /\ scaler = NoScaler
    /\ GridLocalsInit /\ CVLocalsInit /\ FoldLocalsInit

SpecScore == InitScore /\ [][Next]_vars

\* two candidate values of one name, on data sets with and without an extreme
\* row, balanced and not, with every setting of the two options
InitCV ==
    /\ pc = "loop"
    /\ param_grid = [c \in Names(1) |-> <<Plain(1), Plain(3)>>]
    /\ scoring = "custom"
    /\ \E m \in {2, 4}, p \in 0..NRows, big \in {Big, -Big} :
          /\ X = DataX(NRows, m, p, big)
          /\ y = DataY(NRows, m)
    /\ outlier_removal \in BOOLEAN
    /\ \E given \in BOOLEAN : pca = NoPca(given)
    /\ scaler = NoScaler
    /\ GridLocalsInit /\ CVLocalsInit /\ FoldLocalsInit

SpecCV == InitCV /\ [][Next]_vars

----------------------------------------------------------------------------
(* removeOutliers called on its own: the tables it is handed *)

SpecialVals == {0, 1, Big, -Big}

\* n rows of two columns; rows 1 and 2 hold the values s1 and s2, the others
\* a flat or an alternating pattern.  With dup, row 3 carries row 1's label.
OutTable(n, flat, s1, s2, dup) ==
    [i \in 1..n |->
        [idx |-> IF dup /\ i = 3 THEN 0 ELSE i - 1,
         src |-> i,
         v   |-> IF i = 1 THEN s1
                 ELSE IF i = 2 THEN s2
                 ELSE IF flat THEN <<0, 0>>
                 ELSE <<i % 2, (i \div 2) % 2>>]]

OutLabels(Xt) ==
    [i \in 1..Len(Xt) |->
        [idx |-> Xt[i].idx, src |-> Xt[i].src, cls |-> IF i % 4 = 1 THEN 1 ELSE 0]]

InitOutliers ==
    /\ pc = "removeOutliers"
    /\ \E n \in {NOut - 2, NOut}, flat \in BOOLEAN, dup \in BOOLEAN,
          s1 \in SpecialVals \X SpecialVals, s2 \in SpecialVals \X SpecialVals :
            /\ X_train_s_r = OutTable(n, flat, s1, s2, dup)
            /\ y_train_r = OutLabels(X_train_s_r)
    /\ X_train_s_r_o = <<>> /\ y_train_final = <<>>
    /\ param_grid = <<>> /\ scoring = "None"
    /\ X = <<>> /\ y = <<>>
    /\ outlier_removal = TRUE
    /\ pca = NoPca(FALSE)
    /\ scaler = NoScaler
    /\ GridLocalsInit
    /\ CVLocalsInit

\* lines 1-51 as one call
RemoveOutliersCall ==
    /\ pc = "removeOutliers"
    /\ X_train_s_r_o' = removeOutliers(X_train_s_r, y_train_r)[1]
    /\ y_train_final' = removeOutliers(X_train_s_r, y_train_r)[2]
    /\ pc' = "removeOutliers_done"
    /\ UNCHANGED <<param_grid, scoring, X, y, outlier_removal, pca, scaler,
                   current_params, scores, level, it, clf, cv_scores, fold,
                   train_index, test_index, X_train, X_test, y_train, X_train_s,
                   X_test_s, X_train_s_r, y_train_r,
                   X_train_final, X_test_final, y_test, y_pred,
                   nInst, nCV, nFit, log, printed, ret, raised>>

NextOutliers == RemoveOutliersCall

SpecOutliers == InitOutliers /\ [][NextOutliers]_vars

----------------------------------------------------------------------------
(* Claims about removeOutliers *)

UniqueIndex(t) == \A i, j \in 1..Len(t) : t[i].idx = t[j].idx => i = j

\* Sum over the rows of column c of f applied to nothing but the value:
\* n * sum of squared distances from the mean is n*Q - S*S
SqDistTimesN2(t, c, x) == (Len(t) * x - ColSum(t, c)) * (Len(t) * x - ColSum(t, c))
VarTimesN2(t, c) ==
    Len(t) * ColSumSq(t, c) - ColSum(t, c) * ColSum(t, c)

\* |x - mean| > 4 * std with the sample standard deviation, squared and
\* cleared of denominators: (n*x - S)^2 / n^2 > 16 * (n*Q - S^2) / (n*(n-1))
Beyond4Std(t, c, x) ==
    /\ Len(t) >= 2
    /\ SqDistTimesN2(t, c, x) * (Len(t) - 1) > 16 * Len(t) * VarTimesN2(t, c)

RowIsOutlier(t, i) == \E c \in 1..NCols(t) : Beyond4Std(t, c, t[i].v[c])

\* C6: the features and labels removeOutliers returns have equal length and
\* the same row index, and each returned feature row is still paired with the
\* label it came in with.
C6_Aligned ==
    pc = "removeOutliers_done" =>
        /\ Len(X_train_s_r_o) = Len(y_train_final)
        /\ IndexOf(X_train_s_r_o) = IndexOf(y_train_final)
        /\ SrcOf(X_train_s_r_o) = SrcOf(y_train_final)
        /\ \A i \in 1..Len(y_train_final) :
              y_train_final[i] = y_train_r[y_train_final[i].src]

C6_Witness ==
    /\ pc = "removeOutliers_done"
    /\ Len(X_train_s_r_o) < Len(X_train_s_r)
    /\ Len(X_train_s_r_o) > 0
    /\ ~UniqueIndex(X_train_s_r)

----------------------------------------------------------------------------
(* Claims about the enumeration of customGridSearchCV *)

Enumerated == pc \in {"scoring", "done"}

RECURSIVE ProductOfCounts(_)
ProductOfCounts(names) ==
    IF names = {} THEN 1
    ELSE LET c == CHOOSE c \in names : TRUE
         IN  Len(param_grid[c]) * ProductOfCounts(names \ {c})

GridProduct == ProductOfCounts(DOMAIN param_grid)

\* C3 as stated: the number of model-fit invocations of one call equals the
\* product of the candidate-value counts.
C3_FitsEqualProduct ==
    (Enumerated /\ len_ <= MaxDepth) => nFit = GridProduct

\* C3, amended: the model is instantiated and customCV called once per
\* element of the product, and the model is fitted once per fold of each
\* call: n_splits times the product.
C3_FitsPerFold ==
    (Enumerated /\ len_ <= MaxDepth) =>
        /\ nInst = GridProduct
        /\ nCV = GridProduct
        /\ nFit = n_splits * GridProduct

C3_Witness ==
    /\ pc = "scoring"
    /\ len_ >= 3
    /\ GridProduct >= 8
    /\ nFit = 5 * GridProduct

\* the combinations of the grid, each as the dict the code would hold
Combinations ==
    {List([i \in 1..len_ |-> [key |-> param_keys[i], value |-> ch[i]]]) :
        ch \in {f \in [1..len_ -> UNION {Range(param_grid[c]) : c \in DOMAIN param_grid}] :
                  \A i \in 1..len_ : f[i] \in Range(param_grid[param_keys[i]])}}

DistinctStringForms ==
    \A c \in DOMAIN param_grid : \A i, j \in 1..Len(param_grid[c]) :
        Repr(param_grid[c][i]) = Repr(param_grid[c][j]) => i = j

\* C4: on a grid of one to five names whose candidate values print
\* differently, after the enumeration the score mapping has exactly one entry
\* per combination of the grid, each customCV call was made with a model built
\* from exactly the combination its result is stored under, and while a model
\* is being evaluated every entry of current_params is the value its loop is
\* at: no value of an earlier iteration is used.
C4_OneEntryPerCombination ==
    /\ (pc = "customCV" /\ len_ <= MaxDepth) =>
          /\ clf.params = current_params
          /\ Len(current_params) = len_
          /\ \A l \in 1..len_ :
                /\ current_params[l].key = param_keys[l]
                /\ current_params[l].value = param_grid[param_keys[l]][it[l] - 1]
    /\ (Enumerated /\ len_ <= MaxDepth /\ DistinctStringForms) =>
          /\ Len(scores) = Cardinality(Combinations)
          /\ Len(scores) = GridProduct
          /\ Range(Keys(scores)) = {Str(c) : c \in Combinations}
          /\ Len(log) = Len(scores)
          /\ \A i \in 1..Len(log) :
                /\ log[i].params \in Combinations
                /\ log[i].key = Str(log[i].params)
                /\ Get(scores, log[i].key) = log[i].score
                /\ \A j \in 1..Len(log) : log[i].params = log[j].params => i = j

C4_Witness ==
    /\ pc = "scoring"
    /\ len_ >= 3
    /\ DistinctStringForms
    /\ Len(scores) >= 8
    /\ \E i, j \in 1..Len(scores) : scores[i].value # scores[j].value

\* C10: with more than five names no combination is evaluated: the model
\* class is never instantiated, customCV never called, nothing is raised
\* while the loops run, and the score mapping is empty when the scoring
\* branch is reached.
C10_NothingEvaluated ==
    len_ > MaxDepth =>
        /\ nInst = 0 /\ nCV = 0 /\ nFit = 0
        /\ clf = NoClf
        /\ pc # "customCV"
        /\ scores = <<>>
        /\ pc \in {"loop", "scoring"} => raised = "None"

C10_Witness ==
    /\ len_ > MaxDepth
    /\ pc = "scoring"
    /\ \A l \in 1..MaxDepth : it[l] > 2
    /\ Len(current_params) = MaxDepth
    /\ scores = <<>>

----------------------------------------------------------------------------
(* Claims about the scoring branches of customGridSearchCV *)

MetricIndex == CASE scoring = "recall" -> 1 [] scoring = "precision" -> 2 [] OTHER -> 3

BestOf(d, m) == Max({d[i].value[m] : i \in 1..Len(d)})

\* C1: for scoring 'recall', 'precision' or 'f1' on a grid of one to five
\* names with non-empty candidate lists, the call returns a tuple (key, score
\* vector, scaler, resampler, outlier flag, reducer) whose score vector's
\* component for that metric is the maximum over all evaluated combinations.
C1_ReturnsBest ==
    (/\ pc = "done"
     /\ scoring \in {"recall", "precision", "f1"}
     /\ len_ <= MaxDepth
     /\ \A c \in DOMAIN param_grid : param_grid[c] # <<>>) =>
        /\ raised = "None"
        /\ ret.kind = "tuple"
        /\ HasKey(scores, ret.key)
        /\ ret.score = Get(scores, ret.key)
        /\ ret.score[MetricIndex] = BestOf(scores, MetricIndex)

\* C2: with scoring 'all' every evaluated combination is printed, once each
\* and in sorted key order, and the full score mapping is returned.
C2_AllPrintsEvery ==
    (pc = "done" /\ scoring = "all") =>
        /\ Len(printed) = Len(scores)
        /\ Range(printed) = Range(Keys(scores))
        /\ \A i, j \in 1..Len(printed) : i < j => StrLess(printed[i], printed[j])
        /\ ret = Mapping(scores)

----------------------------------------------------------------------------
(* Claims about the folds of customCV *)

FoldDone == pc = "customCV" /\ fold >= 1

TrainRows == {train_index[j] : j \in 1..Len(train_index)}
TestRows == {test_index[j] : j \in 1..Len(test_index)}

\* C8: in every fold of every customCV call the scaler's state is the one
\* fitted on that fold's training rows alone, and the fold's test rows are
\* transformed with that state.
C8_ScalerFittedOnTrainOnly ==
    FoldDone =>
        /\ TrainRows \cap TestRows = {}
        /\ TrainRows \cup TestRows = 1..Len(X)
        /\ \E tf \in {test_folds(y)} : TestRows = {i \in 1..Len(y) : tf[i] = fold - 1}
        /\ scaler.fitted_on = TrainRows
        /\ scaler.fitted_on \cap Range(SrcOf(X_test_s)) = {}
        /\ \A c \in 1..NCols(X) :
              /\ \A i \in TrainRows : scaler.data_min[c] <= X[i].v[c]
              /\ \E i \in TrainRows : scaler.data_min[c] = X[i].v[c]
              /\ \A i \in TrainRows : scaler.data_max[c] >= X[i].v[c]
              /\ \E i \in TrainRows : scaler.data_max[c] = X[i].v[c]
        /\ Len(X_test_s) = Len(test_index)
        /\ \A j \in 1..Len(test_index) : \A c \in 1..NCols(X) :
              X_test_s[j].v[c] = X[test_index[j]].v[c] - scaler.data_min[c]

\* in the second call, after an earlier fold whose training rows held the
\* extreme row, a fold holds it among its test rows
C8_Witness ==
    /\ FoldDone
    /\ nCV = 2
    /\ fold >= 2
    /\ \E i \in TestRows : X[i].v[1] = Big
    /\ scaler.data_max[1] < Big
    /\ \E j \in 1..Len(X_test_s) : X_test_s[j].v[1] > scaler.data_max[1] - scaler.data_min[1]

\* C9: in every fold, whatever outlier_removal and pca are, the rows
\* predicted on and the labels scored against are exactly the fold's test
\* split of X and y, in order: resampling and outlier removal touch the
\* training rows only.
C9_TestSplitUntouched ==
    FoldDone =>
        /\ test_index = SplitTest(y, fold - 1)
        /\ SrcOf(X_test_s) = test_index
        /\ SrcOf(X_test_final) = test_index
        /\ Len(y_pred) = Len(test_index)
        /\ y_test = List([j \in 1..Len(test_index) |-> y[test_index[j]]])
        /\ Range(SrcOf(X_train_s_r)) \subseteq TrainRows
        /\ Range(SrcOf(X_train_final)) \subseteq TrainRows
        /\ Len(cv_scores) = fold
        /\ cv_scores[fold] = classification_report(y_test, y_pred)

\* a fold in which resampling added rows and outlier removal dropped one
C9_Witness ==
    /\ FoldDone
    /\ outlier_removal
    /\ pca.given
    /\ Len(X_train_s_r) > Len(train_index)
    /\ Len(X_train_s_r_o) < Len(X_train_s_r)
    /\ Len(X_test_final) = Len(test_index)
    /\ \E j \in 1..Len(y_test) : y_test[j].cls = 1

====
